---- MODULE Spec2Model ----
(***************************************************************************)
(* Model of VirusGrowthSimulation.py: the virus particles (SimpleVirus,    *)
(* ResistantVirus), the containers (Patient, TreatedPatient) and the two   *)
(* trial drivers (simulationWithoutDrug, simulationWithDrug).              *)
(*                                                                         *)
(* Numbers.  A probability is k/Grid for k in 0..Grid and a value of       *)
(* random.random(), which lies in [0,1), is r/Grid for r in 0..Grid-1.     *)
(* A population density is the exact quotient num/den.  Every comparison   *)
(* of the source is carried out on these quotients after multiplying by    *)
(* the (positive) denominators.                                            *)
(*                                                                         *)
(* Python values.  An argument that may be a str or a list of str is the   *)
(* record PyStr(s) or PyList(l); exceptions are named by their class.      *)
(***************************************************************************)
EXTENDS Integers, Sequences, FiniteSets, TLC

VARIABLES
  particle,          \* the receiver of a direct particle call (SpecVirus)
  kind,              \* class of the container: "Patient" / "TreatedPatient"
  viruses,           \* self.viruses
  maxPop,            \* self.maxPop
  prescription,      \* self.prescription          (TreatedPatient)
  Prescriptions,     \* self.Prescriptions         (TreatedPatient)
  survivorViruses,   \* self.survivorViruses       (set by update)
  newViruses,        \* self.newViruses            (set by update)
  popDensity,        \* self.popDensity            (set by update)
  resistantViruses,  \* self.resistantViruses      (set by getResistPop)
  call,              \* the last call made: its name, arguments, outcome
  pc,                \* position of the driver
  t,                 \* trial index of the driver
  i,                 \* step index of the driver's inner loop
  yValues,           \* running sums, then averages, of the total population
  yDrugValues,       \* the same, of the resistant population
  patient,           \* the template the driver builds every trial from
  listViruses,       \* the driver's list of seed particles
  args,              \* the other parameters of the driver
  ghost              \* history kept for the properties, not by the program
                     \* (the seed count and seed keys of a container, the
                     \* sums of a run)

objVars == <<kind, viruses, maxPop, prescription, Prescriptions,
             survivorViruses, newViruses, popDensity, resistantViruses>>
drvVars == <<pc, t, i, yValues, yDrugValues, patient, listViruses, args>>
vars == <<particle, objVars, call, drvVars, ghost>>

(***************************************************************************)
(* Bounds of the model.                                                    *)
(***************************************************************************)
Grid == 2            \* resolution of probabilities and random draws
MaxSeed == 2         \* most seed particles of a container
MaxPopBound == 2     \* largest maxPop
MaxViruses == 2      \* update() is explored up to this population
MaxKeys == 1         \* most keys of a seed particle's resistance map
MaxPresc == 2        \* most entries of an active-drug list / prescription
MaxArgLen == 1       \* longest list passed to addPrescription / getResistPop
MaxDrugs == 2        \* longest activeDrugs list of a direct reproduce call
Steps == 1           \* steps of one driver phase (150 in the source)
NumTrials == 2       \* most trials of a driver run (100 in the source)

Probs == 0..Grid
Draws == 0..(Grid - 1)
DrugNames == {"x", "y"}
Strings == DrugNames \cup {""}

RECURSIVE SeqsUpTo(_, _)
SeqsUpTo(S, n) ==
  IF n = 0 THEN {<<>>}
  ELSE LET shorter == SeqsUpTo(S, n - 1)
       IN shorter \cup {Append(s, x) : s \in shorter, x \in S}

Range(s) == {s[k] : k \in 1..Len(s)}

(***************************************************************************)
(* Python values                                                           *)
(***************************************************************************)
PyStr(s) == [isStr |-> TRUE, str |-> s, list |-> <<>>]
PyList(l) == [isStr |-> FALSE, str |-> "", list |-> l]
\* number of iterations of "for d in v": the characters of a str, the
\* elements of a list
PyLen(v) == IF v.isStr THEN Len(v.str) ELSE Len(v.list)
None == [cls |-> "None"]
NoCall == [name |-> "none"]

(***************************************************************************)
(* Particles                                                               *)
(***************************************************************************)
SimpleVirus(maxBirthProb, clearProb) ==
  [cls |-> "SimpleVirus", maxBirthProb |-> maxBirthProb, clearProb |-> clearProb]

ResistantVirus(maxBirthProb, clearProb, resistances, mutProb) ==
  [cls |-> "ResistantVirus", maxBirthProb |-> maxBirthProb,
   clearProb |-> clearProb, resistances |-> resistances, mutProb |-> mutProb]

\* self.clearProb >= random.random()
doesClear(v, r) == v.clearProb >= r

\* a birth test that leaves the density out
BirthTestNoDensity(v, dens, r) == v.maxBirthProb * dens.den >= r * dens.den

\* self.maxBirthProb * (1 - popDensity) >= random.random(), with
\* popDensity = dens.num / dens.den and dens.den > 0
BirthTest(v, dens, r) ==
  v.maxBirthProb * (dens.den - dens.num) >= r * dens.den

\* SimpleVirus.reproduce(popDensity): the offspring, or NoChildException
SimpleReproduce(v, dens, r) ==
  IF BirthTest(v, dens, r)
    THEN [raised |-> "none", child |-> SimpleVirus(v.maxBirthProb, v.clearProb)]
    ELSE [raised |-> "NoChildException", child |-> None]

\* ResistantVirus.isResistantTo(drug): "True", "False", "None" (the method
\* falls off its end when the drug is no key) or "TypeError" (a list is
\* unhashable, so "drug in self.resistances" raises)
isResistantTo(v, drug) ==
  IF ~drug.isStr THEN "TypeError"
  ELSE IF drug.str \in DOMAIN v.resistances
         THEN (IF v.resistances[drug.str] THEN "True" ELSE "False")
         ELSE "None"

\* The loop of reproduce over activeDrugs (lines 306-309): "resist",
\* "noresist", or the exception self.resistances[drug] raises.
RECURSIVE ResistLoop(_, _, _)
ResistLoop(res, drugs, resist) ==
  IF drugs = <<>> THEN (IF resist THEN "resist" ELSE "noresist")
  ELSE LET drug == Head(drugs)
       IN IF DOMAIN res = {} THEN ResistLoop(res, Tail(drugs), resist)
          ELSE IF ~drug.isStr THEN "TypeError"
          ELSE IF drug.str \notin DOMAIN res THEN "KeyError"
          ELSE ResistLoop(res, Tail(drugs), resist /\ res[drug.str])

\* an inheritance that gives the offspring only the keys that end up True
InheritResistantOnly(v, mdraws) ==
  LET kept == {d \in DOMAIN v.resistances :
                 (Grid - v.mutProb >= mdraws[d]) = v.resistances[d]}
  IN [d \in kept |-> TRUE]

\* "for drug in self.resistances: if 1 - self.mutProb >= random.random():
\* newResistances[drug] = self.resistances[drug] else: ... = not ...",
\* one draw per key of the map
Inherit(v, mdraws) ==
  [d \in DOMAIN v.resistances |->
     IF Grid - v.mutProb >= mdraws[d] THEN v.resistances[d]
                                      ELSE ~v.resistances[d]]

\* ResistantVirus.reproduce(popDensity, activeDrugs)
ResistantReproduce(v, dens, activeDrugs, mdraws, r) ==
  LET gate == ResistLoop(v.resistances, activeDrugs, TRUE)
  IN IF gate \in {"KeyError", "TypeError"} THEN [raised |-> gate, child |-> None]
     ELSE IF gate = "resist" /\ BirthTest(v, dens, r)
       THEN [raised |-> "none",
             child |-> ResistantVirus(v.maxBirthProb, v.clearProb,
                                      Inherit(v, mdraws), v.mutProb)]
       ELSE [raised |-> "NoChildException", child |-> None]

(***************************************************************************)
(* Inputs                                                                  *)
(***************************************************************************)
ResMaps ==
  UNION {[S -> BOOLEAN] : S \in {K \in SUBSET DrugNames : Cardinality(K) <= MaxKeys}}
SimpleViruses == {SimpleVirus(b, c) : b \in Probs, c \in Probs}
ResistantViruses ==
  {ResistantVirus(b, c, res, m) : b \in Probs, c \in Probs, res \in ResMaps, m \in Probs}
\* a population density passed to reproduce: any quotient n/d >= 0
Densities == {[num |-> n, den |-> d] : n \in 0..MaxViruses, d \in 1..MaxPopBound}
\* a list of drug names
NameLists == SeqsUpTo(DrugNames, MaxArgLen)
DrugLists == SeqsUpTo(DrugNames, MaxDrugs)
StrList(l) == [k \in 1..Len(l) |-> PyStr(l[k])]

NoObject ==
  /\ kind = "none" /\ viruses = <<>> /\ maxPop = 1
  /\ prescription = <<>> /\ Prescriptions = <<>>
  /\ survivorViruses = <<>> /\ newViruses = <<>>
  /\ popDensity = [num |-> 0, den |-> 1] /\ resistantViruses = 0
NoDriver ==
  /\ pc = "none" /\ t = 0 /\ i = 0 /\ yValues = <<>> /\ yDrugValues = <<>>
  /\ patient = None /\ listViruses = <<>> /\ args = None

(***************************************************************************)
(* SpecVirus: direct calls of the methods of one particle                  *)
(***************************************************************************)
InitVirus ==
  /\ particle \in SimpleViruses \cup ResistantViruses
  /\ call = NoCall /\ ghost = None
  /\ NoObject /\ NoDriver

CallDoesClear ==
  /\ call = NoCall
  /\ \E r \in Draws :
       call' = [name |-> "doesClear", draw |-> r, ret |-> doesClear(particle, r)]
  /\ UNCHANGED <<particle, objVars, drvVars, ghost>>

CallSimpleReproduce ==
  /\ call = NoCall
  /\ particle.cls = "SimpleVirus"
  /\ \E dens \in Densities, r \in Draws :
       LET out == SimpleReproduce(particle, dens, r)
       IN call' = [name |-> "reproduce", popDensity |-> dens, activeDrugs |-> <<>>,
                   draw |-> r, raised |-> out.raised, ret |-> out.child]
  /\ UNCHANGED <<particle, objVars, drvVars, ghost>>

CallResistantReproduce ==
  /\ call = NoCall
  /\ particle.cls = "ResistantVirus"
  /\ \E dens \in Densities, l \in DrugLists, r \in Draws,
        mdraws \in [DOMAIN particle.resistances -> Draws] :
       LET out == ResistantReproduce(particle, dens, StrList(l), mdraws, r)
       IN call' = [name |-> "reproduce", popDensity |-> dens, activeDrugs |-> l,
                   draw |-> r, raised |-> out.raised, ret |-> out.child]
  /\ UNCHANGED <<particle, objVars, drvVars, ghost>>

CallIsResistantTo ==
  /\ call = NoCall
  /\ particle.cls = "ResistantVirus"
  /\ \E d \in DrugNames :
       call' = [name |-> "isResistantTo", drug |-> d,
                ret |-> isResistantTo(particle, PyStr(d))]
  /\ UNCHANGED <<particle, objVars, drvVars, ghost>>

\* the caller drops the result; the particle is ready for its next call
Return ==
  /\ call # NoCall
  /\ call' = NoCall
  /\ UNCHANGED <<particle, objVars, drvVars, ghost>>

NextVirus ==
  \/ Return
  \/ CallDoesClear
  \/ CallSimpleReproduce
  \/ CallResistantReproduce
  \/ CallIsResistantTo

SpecVirus == InitVirus /\ [][NextVirus]_vars

(***************************************************************************)
(* Properties of the particle methods (SpecVirus)                          *)
(***************************************************************************)
Eligible(res, l) == \A k \in 1..Len(l) : l[k] \in DOMAIN res /\ res[l[k]]

\* C3: a resistant particle with a non-empty resistance map, asked to
\* reproduce under a drug list holding a drug that its map flags False or
\* does not hold, ends with NoChildException and with no other error.
C3_IneligibleEndsNoChild ==
  ( /\ call.name = "reproduce"
    /\ particle.cls = "ResistantVirus"
    /\ DOMAIN particle.resistances # {}
    /\ ~Eligible(particle.resistances, call.activeDrugs) )
  => call.raised = "NoChildException"

\* C4: a resistant particle with an empty resistance map, asked to reproduce
\* under a non-empty drug list, ends with NoChildException.
C4_EmptyMapNeverReproduces ==
  ( /\ call.name = "reproduce"
    /\ particle.cls = "ResistantVirus"
    /\ DOMAIN particle.resistances = {}
    /\ call.activeDrugs # <<>> )
  => call.raised = "NoChildException"

\* C5: reproduce at a population density of 1.0 or more ends with
\* NoChildException, for a SimpleVirus and for a ResistantVirus (here one
\* that is resistant to every active drug), whatever the draw.
C5_FullDensityNoChild ==
  ( /\ call.name = "reproduce"
    /\ call.popDensity.num >= call.popDensity.den
    /\ particle.cls = "ResistantVirus" =>
         Eligible(particle.resistances, call.activeDrugs) )
  => call.raised = "NoChildException"

\* C10: doesClear() of a particle with clearProb = 0.0 returns False for
\* every value of the draw.
C10_ZeroClearProbNeverClears ==
  (call.name = "doesClear" /\ particle.clearProb = 0) => call.ret = FALSE

(***************************************************************************)
(* Containers: Patient.update and TreatedPatient.update                    *)
(*                                                                         *)
(* An update draws one number per doesClear() and per reproduce() (and one *)
(* per key of the map for the mutations), so its outcome is a set: every   *)
(* record [surv, cleared, new, raised, passed] some sequence of draws       *)
(* produces.  raised names the exception that leaves update(), "none" when *)
(* it returns; passed lists the densities reproduce() was called with.     *)
(***************************************************************************)
\* the loop "for i in self.viruses: if not i.doesClear(): append"
RECURSIVE ClearPhase(_)
ClearPhase(vs) ==
  IF vs = <<>> THEN {[surv |-> <<>>, cleared |-> 0]}
  ELSE LET rest == ClearPhase(Tail(vs))
       IN UNION {{IF doesClear(Head(vs), r)
                    THEN [surv |-> o.surv, cleared |-> o.cleared + 1]
                    ELSE [surv |-> <<Head(vs)>> \o o.surv, cleared |-> o.cleared]
                  : o \in rest} : r \in Draws}

\* self.popDensity = len(self.survivorViruses) / self.maxPop
Density(surv, mp) == [num |-> Len(surv), den |-> mp]

\* Patient.update, lines 149-155: what one survivor appends to newViruses
\* (the survivor itself, not the particle reproduce returned)
PatientAttempt(v, dens) ==
  {LET out == SimpleReproduce(v, dens, r)
   IN IF out.raised = "none" THEN <<v>> ELSE <<>> : r \in Draws}

\* a reproduction loop in which the offspring appended so far count in the
\* density the next survivor is given
RECURSIVE PatientReproPhaseFeedback(_, _)
PatientReproPhaseFeedback(survs, dens) ==
  IF survs = <<>> THEN {[new |-> <<>>, passed |-> <<>>]}
  ELSE UNION {{[new |-> a \o rest.new, passed |-> <<dens>> \o rest.passed]
               : rest \in PatientReproPhaseFeedback(Tail(survs),
                                                    [dens EXCEPT !.num = @ + Len(a)])}
              : a \in PatientAttempt(Head(survs), dens)}

\* the loop "for i in self.survivorViruses: try: pot = i.reproduce(
\* self.popDensity) ...": [new, passed], passed being the argument of each
\* call of reproduce, in call order
RECURSIVE PatientReproPhase(_, _)
PatientReproPhase(survs, dens) ==
  IF survs = <<>> THEN {[new |-> <<>>, passed |-> <<>>]}
  ELSE {[new |-> a \o rest.new, passed |-> <<dens>> \o rest.passed]
        : a \in PatientAttempt(Head(survs), dens),
          rest \in PatientReproPhase(Tail(survs), dens)}

PatientUpdateOutcomes(vs, mp) ==
  UNION {{[surv |-> c.surv, cleared |-> c.cleared, new |-> o.new, raised |-> "none",
           passed |-> o.passed]
          : o \in PatientReproPhase(c.surv, Density(c.surv, mp))}
         : c \in ClearPhase(vs)}

\* TreatedPatient.update, lines 436-440: the container's own test of the
\* survivor against self.Prescriptions: "yes", "no", or the exception
\* i.resistances[d] raises
RECURSIVE Reproductiv(_, _, _)
Reproductiv(res, drugs, reproductiv) ==
  IF drugs = <<>> THEN (IF reproductiv THEN "yes" ELSE "no")
  ELSE LET d == Head(drugs)
       IN IF DOMAIN res = {} THEN Reproductiv(res, Tail(drugs), reproductiv)
          ELSE IF ~d.isStr THEN "TypeError"
          ELSE IF d.str \notin DOMAIN res THEN "KeyError"
          ELSE Reproductiv(res, Tail(drugs), reproductiv /\ res[d.str])

\* lines 436-450 for one survivor: [raised, child, passed]; passed holds
\* the argument of reproduce when it was called; NoChildException is caught
\* at line 447, any other exception leaves update()
TreatedAttempt(v, dens, drugs) ==
  LET test == Reproductiv(v.resistances, drugs, TRUE)
  IN IF test \in {"KeyError", "TypeError"}
       THEN {[raised |-> test, child |-> None, passed |-> <<>>]}
     ELSE IF test = "yes" \/ DOMAIN v.resistances = {}
       THEN {LET out == ResistantReproduce(v, dens, drugs, mdraws, r)
             IN [raised |-> out.raised, child |-> out.child, passed |-> <<dens>>]
             : mdraws \in [DOMAIN v.resistances -> Draws], r \in Draws}
       ELSE {[raised |-> "NoChildException", child |-> None, passed |-> <<>>]}

RECURSIVE TreatedReproPhase(_, _, _)
TreatedReproPhase(survs, dens, drugs) ==
  IF survs = <<>> THEN {[new |-> <<>>, raised |-> "none", passed |-> <<>>]}
  ELSE UNION {IF a.raised \in {"none", "NoChildException"}
                THEN {[new |-> (IF a.raised = "none" THEN <<a.child>> ELSE <<>>) \o o.new,
                       raised |-> o.raised, passed |-> a.passed \o o.passed]
                      : o \in TreatedReproPhase(Tail(survs), dens, drugs)}
                ELSE {[new |-> <<>>, raised |-> a.raised, passed |-> a.passed]}
              : a \in TreatedAttempt(Head(survs), dens, drugs)}

TreatedUpdateOutcomes(vs, mp, drugs) ==
  UNION {{[surv |-> c.surv, cleared |-> c.cleared, new |-> o.new, raised |-> o.raised,
           passed |-> o.passed]
          : o \in TreatedReproPhase(c.surv, Density(c.surv, mp), drugs)}
         : c \in ClearPhase(vs)}

\* the assignments of update() for one outcome; self.viruses is assigned
\* (line 157 / 452) only when no exception left the loop before it
ApplyUpdate(o) ==
  /\ survivorViruses' = o.surv
  /\ newViruses' = o.new
  /\ popDensity' = Density(o.surv, maxPop)
  /\ viruses' = IF o.raised = "none" THEN o.surv \o o.new ELSE viruses
  /\ call' = [name |-> "update", prePop |-> Len(viruses), cleared |-> o.cleared,
              raised |-> o.raised, passed |-> o.passed,
              ret |-> IF o.raised = "none" THEN Len(o.surv \o o.new) ELSE -1]

(***************************************************************************)
(* TreatedPatient: addPrescription, getPrescriptions, getResistPop         *)
(***************************************************************************)
\* newDrugs in self.Prescriptions
InList(x, l) == \E k \in 1..Len(l) : l[k] = x

\* "for d in newDrugs: if not newDrugs in self.Prescriptions:
\*      self.Prescriptions.append(newDrugs)", n iterations to go: the body
\* tests and appends the argument itself, not the loop variable d
RECURSIVE AddLoop(_, _, _)
AddLoop(P, newDrugs, n) ==
  IF n = 0 THEN P
  ELSE AddLoop(IF ~InList(newDrugs, P) THEN Append(P, newDrugs) ELSE P, newDrugs, n - 1)

addPrescription(P, newDrugs) == AddLoop(P, newDrugs, PyLen(newDrugs))

getTotalPop(vs) == Len(vs)

\* the inner loop of getResistPop for one particle: "True", "False" or the
\* exception isResistantTo raises
RECURSIVE ResistsAll(_, _, _)
ResistsAll(v, drugResist, resists) ==
  IF drugResist = <<>> THEN (IF resists THEN "True" ELSE "False")
  ELSE LET a == isResistantTo(v, Head(drugResist))
       IN IF a = "TypeError" THEN a
          ELSE ResistsAll(v, Tail(drugResist), resists /\ a = "True")

\* getResistPop(drugResist): [raised, count], count being what
\* self.resistantViruses holds when the method ends
RECURSIVE getResistPop(_, _, _)
getResistPop(vs, drugResist, count) ==
  IF vs = <<>> THEN [raised |-> "none", count |-> count]
  ELSE LET a == ResistsAll(Head(vs), drugResist, TRUE)
       IN IF a = "TypeError" THEN [raised |-> a, count |-> count]
          ELSE getResistPop(Tail(vs), drugResist, IF a = "True" THEN count + 1 ELSE count)

(***************************************************************************)
(* Spec: one container and the calls a client makes on it                  *)
(***************************************************************************)
\* an argument of addPrescription: one drug name, or a list of drug names
PyArgs == {PyStr(s) : s \in Strings} \cup {PyList(l) : l \in NameLists}

InitPatient ==
  /\ kind = "Patient"
  /\ \E b \in Probs, c \in Probs, n \in 1..MaxSeed :
       viruses = [k \in 1..n |-> SimpleVirus(b, c)]

InitTreatedPatient ==
  /\ kind = "TreatedPatient"
  /\ \E b \in Probs, c \in Probs, m \in Probs, res \in ResMaps, n \in 1..MaxSeed :
       viruses = [k \in 1..n |-> ResistantVirus(b, c, res, m)]

\* Patient.__init__ / TreatedPatient.__init__
Init ==
  /\ InitPatient \/ InitTreatedPatient
  /\ maxPop \in 1..MaxPopBound
  /\ prescription = <<>> /\ Prescriptions = <<>>
  /\ survivorViruses = <<>> /\ newViruses = <<>>
  /\ popDensity = [num |-> 0, den |-> 1] /\ resistantViruses = 0
  /\ particle = None /\ call = NoCall
  /\ ghost = [numViruses |-> Len(viruses),
              keys |-> IF kind = "TreatedPatient" THEN DOMAIN viruses[1].resistances
                                                  ELSE {}]
  /\ NoDriver

PatientUpdate ==
  /\ kind = "Patient"
  /\ Len(viruses) <= MaxViruses
  /\ \E o \in PatientUpdateOutcomes(viruses, maxPop) : ApplyUpdate(o)
  /\ UNCHANGED <<particle, kind, maxPop, prescription, Prescriptions,
                 resistantViruses, drvVars, ghost>>

TreatedUpdate ==
  /\ kind = "TreatedPatient"
  /\ Len(viruses) <= MaxViruses
  /\ \E o \in TreatedUpdateOutcomes(viruses, maxPop, Prescriptions) : ApplyUpdate(o)
  /\ UNCHANGED <<particle, kind, maxPop, prescription, Prescriptions,
                 resistantViruses, drvVars, ghost>>

AddPrescription ==
  /\ kind = "TreatedPatient"
  /\ \E newDrugs \in PyArgs :
       /\ Len(addPrescription(Prescriptions, newDrugs)) <= MaxPresc
       /\ Prescriptions' = addPrescription(Prescriptions, newDrugs)
       /\ call' = [name |-> "addPrescription", arg |-> newDrugs, raised |-> "none"]
  /\ UNCHANGED <<particle, kind, viruses, maxPop, prescription, survivorViruses,
                 newViruses, popDensity, resistantViruses, drvVars, ghost>>

GetResistPop ==
  /\ kind = "TreatedPatient"
  /\ \E drugResist \in {StrList(l) : l \in NameLists} \cup {Prescriptions} :
       LET out == getResistPop(viruses, drugResist, 0)
       IN /\ resistantViruses' = out.count
          /\ call' = [name |-> "getResistPop", arg |-> drugResist,
                      raised |-> out.raised,
                      ret |-> IF out.raised = "none" THEN out.count ELSE -1]
  /\ UNCHANGED <<particle, kind, viruses, maxPop, prescription, Prescriptions,
                 survivorViruses, newViruses, popDensity, drvVars, ghost>>

Next ==
  \/ PatientUpdate
  \/ TreatedUpdate
  \/ AddPrescription
  \/ GetResistPop

Spec == Init /\ [][Next]_vars

(***************************************************************************)
(* Properties of the containers (Spec)                                     *)
(***************************************************************************)
\* the active-drug list holds drug names only
NamesOnly(P) == \A k \in 1..Len(P) : P[k].isStr
NoDuplicate(P) == \A j, k \in 1..Len(P) : P[j] = P[k] => j = k

\* C1: after every call of update() (here on a container whose active-drug
\* list holds drug names) the survivors and the cleared particles add up to
\* the population before the call, the population is the survivors plus the
\* offspring of the step, and update() returned the population that
\* getTotalPop() reads.
C1_UpdateAccounting ==
  (call.name = "update" /\ NamesOnly(Prescriptions)) =>
    /\ call.raised = "none"
    /\ Len(survivorViruses) + call.cleared = call.prePop
    /\ getTotalPop(viruses) = Len(survivorViruses) + Len(newViruses)
    /\ call.ret = getTotalPop(viruses)

\* L followed by the drug names of l that L does not hold, each once
RECURSIVE AppendNew(_, _)
AppendNew(L, l) ==
  IF l = <<>> THEN L
  ELSE AppendNew(IF InList(PyStr(Head(l)), L) THEN L ELSE Append(L, PyStr(Head(l))),
                 Tail(l))

\* C2: addPrescription called with a list of drug names leaves the
\* active-drug list equal to the list before, followed by every name of the
\* argument that was not in it, each once and in first-seen order; the list
\* holds no duplicate and nothing but single drug names.
C2_AddPrescriptionAppendsNewNames ==
  [][ (call'.name = "addPrescription" /\ ~call'.arg.isStr) =>
        /\ Prescriptions' = AppendNew(Prescriptions, call'.arg.list)
        /\ NamesOnly(Prescriptions') /\ NoDuplicate(Prescriptions') ]_vars

\* C6: update() on a container whose active-drug list holds drug names
\* always completes and returns the population; no exception leaves it,
\* whatever the resistance maps of the live particles are.
C6_UpdateNeverRaises ==
  (call.name = "update" /\ NamesOnly(Prescriptions)) =>
    (call.raised = "none" /\ call.ret = Len(viruses))

(***************************************************************************)
(* SpecDriver: simulationWithoutDrug and simulationWithDrug, called as the *)
(* user interface calls them (lines 545-609 and 613-709).  A driver phase  *)
(* runs Steps steps (150 in the source, 300 = Horizon without drug) and a  *)
(* run makes NumTrials trials (100).                                       *)
(***************************************************************************)
Horizon == 2 * Steps

\* an accumulation that replaces the entry instead of adding to it
AccumulateOverwrite(y, idx, val) ==
  IF Len(y) = idx THEN Append(y, val) ELSE [y EXCEPT ![idx + 1] = val]

\* "if len(y) == idx: y.append(val) else: y[idx] = y[idx] + val"
\* (idx counts from 0; an idx beyond the list raises IndexError)
AccumulateOk(y, idx) == idx <= Len(y)
Accumulate(y, idx, val) ==
  IF Len(y) = idx THEN Append(y, val) ELSE [y EXCEPT ![idx + 1] = @ + val]

\* "y[k] = y[k] / numTrials": the exact quotient
Average(y, numTrials) == [k \in 1..Len(y) |-> [num |-> y[k], den |-> numTrials]]

\* "for d in patient.prescription: p.addPrescription(d)"
RECURSIVE AddAll(_, _)
AddAll(P, ds) ==
  IF ds = <<>> THEN P ELSE AddAll(addPrescription(P, PyStr(Head(ds))), Tail(ds))

\* what the properties need of the run so far: per step index the sum of the
\* populations the trials had after that step, the resistant counts, the
\* arguments getResistPop got in the current trial, and how often the
\* prescription was applied in it
NoHistory ==
  [sum |-> [k \in 1..Horizon |-> 0], sumDrug |-> [k \in 1..Horizon |-> 0],
   subsets |-> <<>>, applied |-> 0]

\* lines 545-609: one SimpleVirus, numVirus references to it, maxPop >= 1
InitWithoutDrug ==
  /\ \E b \in Probs, c \in Probs, n \in 1..MaxSeed, mp \in 1..MaxPopBound,
        T \in 1..NumTrials :
       /\ args = [numViruses |-> n, maxPop |-> mp, maxBirthProb |-> b,
                  clearProb |-> c, numTrials |-> T]
       /\ listViruses = [k \in 1..n |-> SimpleVirus(b, c)]
  /\ patient = None
  /\ pc = "trial"

\* the map the interface builds: True for every name entered as a
\* resistance, then False for every prescribed drug that is no key yet
\* (lines 638-643 and 699-701)
UIResistances(entered, presc) ==
  [d \in entered \cup Range(presc) |-> d \in entered]

\* lines 613-709: one ResistantVirus, numVirus references to it, a template
\* TreatedPatient holding them, the prescription and no active drug
InitWithDrug ==
  /\ \E b \in Probs, c \in Probs, m \in Probs, n \in 1..MaxSeed, mp \in 1..MaxPopBound,
        entered \in {K \in SUBSET Strings : Cardinality(K) <= MaxKeys},
        presc \in SeqsUpTo(Strings, MaxArgLen), T \in 1..NumTrials :
       LET virus == ResistantVirus(b, c, UIResistances(entered, presc), m)
       IN /\ patient = [cls |-> "TreatedPatient", viruses |-> [k \in 1..n |-> virus],
                        maxPop |-> mp, prescription |-> presc, Prescriptions |-> <<>>]
          /\ listViruses = [k \in 1..n |-> virus]
          /\ args = [numTrials |-> T]
  /\ pc = "trial"

InitDriver ==
  /\ InitWithoutDrug \/ InitWithDrug
  /\ t = 0 /\ i = 0 /\ yValues = <<>> /\ yDrugValues = <<>>
  /\ particle = None /\ call = NoCall /\ ghost = NoHistory
  /\ NoObject

WithDrug == patient # None

\* line 183: initial = Patient(listViruses, maxPop)
WithoutDrugNewTrial ==
  /\ ~WithDrug /\ pc = "trial" /\ t < args.numTrials
  /\ kind' = "Patient" /\ viruses' = listViruses /\ maxPop' = args.maxPop
  /\ survivorViruses' = <<>> /\ newViruses' = <<>>
  /\ popDensity' = [num |-> 0, den |-> 1]
  /\ pc' = "steps" /\ i' = 0
  /\ ghost' = [ghost EXCEPT !.subsets = <<>>, !.applied = 0]
  /\ UNCHANGED <<particle, prescription, Prescriptions, resistantViruses, call,
                 t, yValues, yDrugValues, patient, listViruses, args>>

\* lines 184-189: one pass of the step loop
WithoutDrugStep ==
  /\ ~WithDrug /\ pc = "steps" /\ i < Horizon
  /\ Len(viruses) <= MaxViruses
  /\ \E o \in PatientUpdateOutcomes(viruses, maxPop) :
       /\ ApplyUpdate(o)
       /\ LET pop == getTotalPop(o.surv \o o.new)
          IN IF AccumulateOk(yValues, i)
               THEN /\ yValues' = Accumulate(yValues, i, pop)
                    /\ ghost' = [ghost EXCEPT !.sum[i + 1] = @ + pop]
                    /\ i' = i + 1
                    /\ IF i + 1 = Horizon THEN pc' = "trial" /\ t' = t + 1
                                          ELSE pc' = "steps" /\ t' = t
               ELSE /\ pc' = "raised"
                    /\ UNCHANGED <<yValues, ghost, i, t>>
  /\ UNCHANGED <<particle, kind, maxPop, prescription, Prescriptions,
                 resistantViruses, yDrugValues, patient, listViruses, args>>

\* a trial loop that builds the container before the first trial only and
\* runs the later trials on it as the trial before left it
WithDrugNewTrialReuse ==
  /\ WithDrug /\ pc = "trial" /\ t < args.numTrials
  /\ kind' = "TreatedPatient" /\ maxPop' = patient.maxPop
  /\ viruses' = IF t = 0 THEN patient.viruses ELSE viruses
  /\ pc' = "pre" /\ i' = 0
  /\ ghost' = [ghost EXCEPT !.subsets = <<>>, !.applied = 0]
  /\ UNCHANGED <<particle, prescription, Prescriptions, survivorViruses, newViruses,
                 popDensity, resistantViruses, call, t, yValues, yDrugValues,
                 patient, listViruses, args>>

\* line 478: p = TreatedPatient(patient.viruses, patient.maxPop, [])
WithDrugNewTrial ==
  /\ WithDrug /\ pc = "trial" /\ t < args.numTrials
  /\ kind' = "TreatedPatient" /\ viruses' = patient.viruses
  /\ maxPop' = patient.maxPop
  /\ prescription' = <<>> /\ Prescriptions' = <<>>
  /\ survivorViruses' = <<>> /\ newViruses' = <<>>
  /\ popDensity' = [num |-> 0, den |-> 1]
  /\ pc' = "pre" /\ i' = 0
  /\ ghost' = [ghost EXCEPT !.subsets = <<>>, !.applied = 0]
  /\ UNCHANGED <<particle, resistantViruses, call, t, yValues, yDrugValues,
                 patient, listViruses, args>>

\* one pass of a step loop of simulationWithDrug: p.update(), then both
\* running sums at index idx, the resistant count taken against drugResist
WithDrugStep(idx, drugResist, o) ==
  /\ ApplyUpdate(o)
  /\ LET vs == o.surv \o o.new
         res == getResistPop(vs, drugResist, 0)
     IN IF /\ o.raised = "none" /\ res.raised = "none"
           /\ AccumulateOk(yValues, idx) /\ AccumulateOk(yDrugValues, idx)
          THEN /\ yValues' = Accumulate(yValues, idx, getTotalPop(vs))
               /\ yDrugValues' = Accumulate(yDrugValues, idx, res.count)
               /\ resistantViruses' = res.count
               /\ ghost' = [ghost EXCEPT !.sum[idx + 1] = @ + getTotalPop(vs),
                                         !.sumDrug[idx + 1] = @ + res.count,
                                         !.subsets = Append(@, drugResist)]
               /\ i' = i + 1
               /\ IF i + 1 < Steps THEN UNCHANGED <<pc, t>>
                  ELSE IF pc = "pre" THEN pc' = "prescribe" /\ t' = t
                  ELSE pc' = "trial" /\ t' = t + 1
          ELSE /\ pc' = "raised"
               /\ UNCHANGED <<yValues, yDrugValues, resistantViruses, ghost, i, t>>

\* lines 480-491: the resistant count is taken against the template's
\* active-drug list, patient.getPrescriptions()
WithDrugPreStep ==
  /\ WithDrug /\ pc = "pre" /\ i < Steps
  /\ Len(viruses) <= MaxViruses
  /\ \E o \in TreatedUpdateOutcomes(viruses, maxPop, Prescriptions) :
       WithDrugStep(i, patient.Prescriptions, o)
  /\ UNCHANGED <<particle, kind, maxPop, prescription, Prescriptions,
                 patient, listViruses, args>>

\* lines 493-494
WithDrugPrescribe ==
  /\ WithDrug /\ pc = "prescribe"
  /\ Prescriptions' = AddAll(Prescriptions, patient.prescription)
  /\ pc' = "post" /\ i' = 0
  /\ ghost' = [ghost EXCEPT !.applied = @ + 1]
  /\ UNCHANGED <<particle, kind, viruses, maxPop, prescription, survivorViruses,
                 newViruses, popDensity, resistantViruses, call, t, yValues,
                 yDrugValues, patient, listViruses, args>>

\* lines 496-507: the resistant count is taken against the trial's own
\* active-drug list, p.getPrescriptions()
WithDrugPostStep ==
  /\ WithDrug /\ pc = "post" /\ i < Steps
  /\ Len(viruses) <= MaxViruses
  /\ \E o \in TreatedUpdateOutcomes(viruses, maxPop, Prescriptions) :
       WithDrugStep(i + Steps, Prescriptions, o)
  /\ UNCHANGED <<particle, kind, maxPop, prescription, Prescriptions,
                 patient, listViruses, args>>

\* lines 190-191 and 509-512
Averages ==
  /\ pc = "trial" /\ t = args.numTrials
  /\ yValues' = Average(yValues, args.numTrials)
  /\ yDrugValues' = Average(yDrugValues, args.numTrials)
  /\ pc' = "done"
  /\ UNCHANGED <<particle, objVars, call, t, i, patient, listViruses, args, ghost>>

NextDriver ==
  \/ WithoutDrugNewTrial
  \/ WithoutDrugStep
  \/ WithDrugNewTrial
  \/ WithDrugPreStep
  \/ WithDrugPrescribe
  \/ WithDrugPostStep
  \/ Averages

SpecDriver == InitDriver /\ [][NextDriver]_vars

(***************************************************************************)
(* Properties of the drivers (SpecDriver)                                  *)
(***************************************************************************)
\* C7: within a trial of simulationWithDrug every call of getResistPop,
\* before and after the prescription, is given the same drug subset.
C7_OneTargetSubsetPerTrial ==
  \A a, b \in 1..Len(ghost.subsets) : ghost.subsets[a] = ghost.subsets[b]

Configured == {PyStr(d) : d \in Range(patient.prescription)}

\* C8: in a trial of simulationWithDrug the active-drug list is empty until
\* the pre-treatment steps are over, the prescription is applied once, and
\* from then on the list holds every configured drug and nothing else.
C8_PrescriptionAppliedOnceAfterPhaseOne ==
  WithDrug =>
    /\ pc \in {"pre", "prescribe"} => (Prescriptions = <<>> /\ ghost.applied = 0)
    /\ (pc = "post" \/ (pc \in {"trial", "done"} /\ t > 0)) =>
         (ghost.applied = 1 /\ Range(Prescriptions) = Configured)

\* the average y is the quotient sum / numTrials
IsQuotient(y, sum, numTrials) == y.num * numTrials = sum * y.den /\ y.den # 0

\* C9: a driver ends with a sequence of Horizon entries (two sequences with
\* drug), the entry at step index k being the sum over all trials of the
\* trial's count after its (k+1)-th update, divided by the number of trials.
C9_AveragesOverAllTrials ==
  /\ pc # "raised"
  /\ pc = "done" =>
       /\ Len(yValues) = Horizon
       /\ \A k \in 1..Horizon : IsQuotient(yValues[k], ghost.sum[k], args.numTrials)
       /\ WithDrug =>
            /\ Len(yDrugValues) = Horizon
            /\ \A k \in 1..Horizon :
                 IsQuotient(yDrugValues[k], ghost.sumDrug[k], args.numTrials)

\* a run with drug has ended after trials that left particles alive in the
\* post-treatment phase
C9_Witness ==
  /\ pc = "done" /\ WithDrug /\ args.numTrials > 1
  /\ \E k \in (Steps + 1)..Horizon : ghost.sum[k] > args.numTrials

\* every seed particle of the run has maxBirthProb = 0.0
NoBirth == \A k \in 1..Len(listViruses) : listViruses[k].maxBirthProb = 0

\* C11: in a run of simulationWithoutDrug whose particles all have
\* maxBirthProb = 0.0, every pass of the step loop leaves the population at
\* most what it was before the pass, whatever the draws are.
C11_NoBirthPopulationNeverRises ==
  [][ (~WithDrug /\ NoBirth /\ pc = "steps" /\ i' = i + 1) =>
        getTotalPop(viruses') <= getTotalPop(viruses) ]_vars

(***************************************************************************)
(* Further properties of the containers (Spec)                             *)
(***************************************************************************)
\* C12: in one update() the density is the number of survivors of the
\* clearance loop over maxPop, every call of reproduce in the step is given
\* that value, only survivors are asked to reproduce (each once, and each
\* survivor of a Patient), and survivors and cleared particles all come
\* from the population before the step.
C12_OneDensityPerStep ==
  call.name = "update" =>
    /\ popDensity = [num |-> Len(survivorViruses), den |-> maxPop]
    /\ \A k \in 1..Len(call.passed) : call.passed[k] = popDensity
    /\ Len(call.passed) <= Len(survivorViruses)
    /\ kind = "Patient" => Len(call.passed) = Len(survivorViruses)
    /\ Len(newViruses) <= Len(call.passed)
    /\ Len(survivorViruses) + call.cleared = call.prePop

\* a step in which a survivor reproduced before the last survivor was asked
C12_Witness ==
  /\ call.name = "update" /\ call.raised = "none"
  /\ Len(call.passed) = 2 /\ Len(newViruses) = 2

\* the keys of the map the seed particles were built with
SeedKeys == ghost.keys

\* C14: whatever update() and addPrescription calls a TreatedPatient has
\* had, every live particle's resistance map has the key set of the seed
\* particles, offspring of the last step included, and the survivors of a
\* step are particles of the population before it, maps untouched.
C14_OffspringKeepTheKeySet ==
  [][ kind' = "TreatedPatient" =>
        /\ \A k \in 1..Len(viruses') : DOMAIN viruses'[k].resistances = SeedKeys
        /\ \A k \in 1..Len(newViruses') : DOMAIN newViruses'[k].resistances = SeedKeys
        /\ call'.name = "update" =>
             \A k \in 1..Len(survivorViruses') : survivorViruses'[k] \in Range(viruses)
    ]_vars

\* under an active drug a particle has had an offspring whose flag for
\* that drug mutated to False
C14_Witness ==
  /\ kind = "TreatedPatient" /\ call.name = "update" /\ call.raised = "none"
  /\ Prescriptions # <<>> /\ SeedKeys # {}
  /\ \E k \in 1..Len(newViruses), d \in SeedKeys :
       /\ InList(PyStr(d), Prescriptions)
       /\ ~newViruses[k].resistances[d]
       /\ newViruses[k] \in Range(viruses)

Max(a, b) == IF a >= b THEN a ELSE b
Fertile(vs) == \A k \in 1..Len(vs) : vs[k].maxBirthProb > 0

\* C15: a container whose particles all have maxBirthProb > 0 never holds
\* more than max(n, 2 * maxPop) particles, n being the seed count; a step
\* that more than maxPop such particles survive appends no offspring; and a
\* step on an empty population leaves it empty.
C15_PopulationBound ==
  /\ Fertile(viruses) => getTotalPop(viruses) <= Max(ghost.numViruses, 2 * maxPop)
  /\ call.name = "update" =>
       /\ (Fertile(survivorViruses) /\ Len(survivorViruses) > maxPop) =>
            newViruses = <<>>
       /\ call.prePop = 0 => getTotalPop(viruses) = 0

\* a population that grew beyond its seed has had a step that more than
\* maxPop particles survived
C15_Witness ==
  /\ call.name = "update" /\ call.raised = "none"
  /\ viruses # <<>> /\ Fertile(viruses)
  /\ Len(survivorViruses) > maxPop
  /\ getTotalPop(viruses) > ghost.numViruses
  /\ getTotalPop(viruses) = Max(ghost.numViruses, 2 * maxPop)

(***************************************************************************)
(* Further properties of the drivers (SpecDriver)                          *)
(***************************************************************************)
\* the particles every trial is seeded with
Seeds == IF WithDrug THEN patient.viruses ELSE listViruses

\* C13: no step of a driver changes the seed list, the seed particles, the
\* template patient or the arguments, and the step that opens a trial
\* leaves a container that holds exactly the seed particles, the maxPop of
\* the run and, with drug, an empty active-drug list.
C13_EveryTrialStartsFromTheSeeds ==
  [][ /\ listViruses' = listViruses /\ patient' = patient /\ args' = args
      /\ (pc = "trial" /\ pc' \in {"steps", "pre"}) =>
           /\ viruses' = Seeds /\ Len(viruses') = Len(listViruses)
           /\ maxPop' = (IF WithDrug THEN patient.maxPop ELSE args.maxPop)
           /\ WithDrug => Prescriptions' = <<>> ]_vars

\* the second trial with drug opens from the seeds although the first
\* trial ended under an active drug and with another population
C13_Witness ==
  /\ WithDrug /\ t = 1 /\ pc = "pre" /\ i = 0
  /\ patient.prescription # <<>> /\ patient.prescription[1] # ""
  /\ ghost.sum[Horizon] # Len(patient.viruses)
  /\ viruses = patient.viruses /\ Prescriptions = <<>>

====
